---- MODULE Spec2Model ----
(***************************************************************************)
(* rring: a wrapper over a kernel submission/completion ring.              *)
(*                                                                         *)
(* The model follows one Rring handle (src/src/lib.rs), the submission     *)
(* slots it leases (src/src/sqe.rs) and the completion events it hands out *)
(* (src/src/cqe.rs), together with the heap cells that carry UserData      *)
(* across the kernel as raw pointers.  The kernel and the ring library are *)
(* the environment: they copy submitted entries, complete them in any      *)
(* order with any result code, and return the tag unchanged.               *)
(*                                                                         *)
(* Pointers are positive integers, NULL is 0.  Submission entries are      *)
(* 1..Entries, heap cells 1..MaxAddr.  The completion ring is the queue of *)
(* the completions written and not yet acknowledged, oldest first; a Cqe   *)
(* is a pointer to its head.                                               *)
(* `lease` is a history variable: the context the caller attached to an    *)
(* entry since it was acquired.  The field `attached` of an operation in   *)
(* flight and of a completion is the lease the operation was submitted     *)
(* with.  `recovered` is a history variable too: get_data was called on    *)
(* the completion at the head since wait handed it out.  `rring` is the    *)
(* Rring itself: its control memory, the kernel ring behind it, and where  *)
(* the handle is in its life.  The parameters that a fill call marshals    *)
(* are not modelled.                                                       *)
(*                                                                         *)
(* Under Spec the caller is any sequence of the public calls on a ring     *)
(* that was built, with two limits: it writes a submission entry only      *)
(* between get_sqe and the next submit, and it keeps one Cqe, the one of   *)
(* the latest wait.  SpecLife follows the handle from before Rring::new to *)
(* after its drop and lifts the first limit; SpecLive makes wait a call    *)
(* that blocks.                                                            *)
(***************************************************************************)
EXTENDS Integers, FiniteSets, Sequences, TLC

VARIABLES sqes, lease, sqe_head, sqe_tail, inflight, cq, held, heap, ret,
          recovered, rring

vars == <<sqes, lease, sqe_head, sqe_tail, inflight, cq, held, heap, ret,
          recovered, rring>>

ring == <<sqes, lease, sqe_head, sqe_tail, inflight, cq, held, heap,
          recovered, rring>>

----------------------------------------------------------------------------
(* Bounds of the model *)

\* `entries` given to Rring::new: the number of submission entries
Entries == 1

\* heap cells the allocator can hand out
MaxAddr == 2

\* slots acquired over the whole run
MaxSubs == 2

\* calls of io_uring_queue_exit over the life of one Rring
MaxExits == 2

----------------------------------------------------------------------------
(* Values *)

NULL == 0

\* the kernel sizes the completion ring at twice the submission ring
CqEntries == 2 * Entries

SqePtr == 1 .. Entries

Addr == 1 .. MaxAddr

Operation == {"Read", "Write"}

Identifier == {1, 2}

RawFd == {3}

Payload == {"None", "Some"}

\* UserData<T>: the fields of the struct
UserData == [op : Operation, id : Identifier, srcfd : RawFd, data : Payload]

\* UserData::new: no payload
new(op, id, srcfd) == [op |-> op, id |-> id, srcfd |-> srcfd, data |-> "None"]

\* UserData::with_data: a boxed payload
with_data(op, id, srcfd) == [op |-> op, id |-> id, srcfd |-> srcfd, data |-> "Some"]

\* "no context": the value of the history field when nothing was attached,
\* and of a result that carries no context
NoCtx == [op |-> "None", id |-> 0, srcfd |-> 0, data |-> "None"]

\* the contexts the caller builds
Contexts == {new("Read", 1, 3), with_data("Write", 2, 3)}

\* result codes the kernel writes: -errno on failure (EBADF here), a count
\* otherwise
KernelRes == {-9, 0}

\* errno of a failed io_uring_enter (EINTR)
EnterErrno == {4}

\* what io_uring_queue_init returns: -errno (ENOMEM here) or zero
InitRet == {-12, 0}

ZeroSqe == [user_data |-> NULL]

NoLease == [attached |-> NoCtx]

FreeCell == [owner |-> "free", val |-> NoCtx]

\* what the last call returned: `h` a pointer (the Sqe of get_sqe or the one
\* the call went through, the cell that get_data made a Box of), `val` a number, `ctx` a context, `op` the
\* operation of an error; `owner` is who owned the cell behind the tag when
\* get_data read it
Ret(call, status, h, val, ctx, op, owner) ==
    [call |-> call, status |-> status, h |-> h, val |-> val, ctx |-> ctx,
     op |-> op, owner |-> owner]

Plain(call, status, h, val) == Ret(call, status, h, val, NoCtx, "None", "none")

\* the Rring: `mem` the control memory behind _inner, `kernel` the kernel
\* ring, `exits` the calls of io_uring_queue_exit so far, `handle` the Rring
\* value, `dstep` the steps of its drop that have run
Rring(mem, kernel, exits, handle, dstep) ==
    [mem |-> mem, kernel |-> kernel, exits |-> exits, handle |-> handle,
     dstep |-> dstep]

\* no Rring yet
Unborn == Rring("none", "none", 0, "none", 0)

\* the Rring that Rring::new returned in Ok
Built == Rring("alloc", "init", 0, "live", 0)

----------------------------------------------------------------------------
Init ==
    /\ sqes = [p \in SqePtr |-> ZeroSqe]
    /\ lease = [p \in SqePtr |-> NoLease]
    /\ sqe_head = 0
    /\ sqe_tail = 0
    /\ inflight = {}
    /\ cq = << >>
    /\ held = FALSE
    /\ heap = [a \in Addr |-> FreeCell]
    /\ ret = Plain("new", "ok", NULL, 0)
    /\ recovered = FALSE
    /\ rring = Built

----------------------------------------------------------------------------
(* Rring::get_sqe *)

\* the entry a running index falls on
EntryOf(k) == (k % Entries) + 1

\* io_uring_get_sqe: the next entry of the ring, NULL when `Entries` slots
\* are acquired and not yet submitted; the entry is handed out as it is
io_uring_get_sqe(tail, head) ==
    IF tail - head >= Entries THEN NULL ELSE EntryOf(tail)

\* get_sqe without the is_null test
get_sqe_unchecked(raw) == Plain("get_sqe", "ok", raw, 0)

\* Rring::get_sqe: Err("SQ is currently full.") on NULL, Ok(Sqe) otherwise
get_sqe(raw) ==
    IF raw = NULL
    THEN Plain("get_sqe", "QueueFull", NULL, 0)
    ELSE Plain("get_sqe", "ok", raw, 0)

GetSqe ==
    LET raw == io_uring_get_sqe(sqe_tail, sqe_head) IN
    /\ raw = NULL \/ sqe_tail < MaxSubs
    /\ ret' = get_sqe(raw)
    /\ IF raw = NULL
       THEN UNCHANGED <<lease, sqe_tail>>
       ELSE /\ sqe_tail' = sqe_tail + 1
            /\ lease' = [lease EXCEPT ![raw] = NoLease]
    /\ UNCHANGED <<sqes, sqe_head, inflight, cq, held, heap, recovered, rring>>

----------------------------------------------------------------------------
(* Sqe *)

\* the Sqe handles in use: the entries acquired and not yet submitted
SqeHandles == {EntryOf(k) : k \in sqe_head .. (sqe_tail - 1)}

\* Sqe::set_user_data: the entry's tag becomes the raw pointer `a`
set_user_data(sq, p, a) == [sq EXCEPT ![p].user_data = a]

\* a cell that stays with the Box the caller holds
into_box(hp, a, user_data) ==
    [hp EXCEPT ![a] = [owner |-> "box", val |-> user_data]]

\* Box::into_raw(Box::new(user_data)): a fresh cell owned by the raw pointer
into_raw(hp, a, user_data) ==
    [hp EXCEPT ![a] = [owner |-> "raw", val |-> user_data]]

SetUserData(p, user_data) ==
    /\ p \in SqeHandles
    /\ \E a \in Addr :
          /\ heap[a].owner = "free"
          /\ heap' = into_raw(heap, a, user_data)
          /\ sqes' = set_user_data(sqes, p, a)
    /\ lease' = [lease EXCEPT ![p].attached = user_data]
    /\ ret' = Plain("set_user_data", "ok", p, 0)
    /\ UNCHANGED <<sqe_head, sqe_tail, inflight, cq, held, recovered, rring>>

\* a fill that resets the tag of the entry
prep_clears_tag(sq, p) == [sq EXCEPT ![p].user_data = NULL]

\* Sqe::read, write, readv, ...: io_uring_prep_* marshals the parameters of
\* the operation into the entry; the tag is no parameter of any of them
prep(sq, p) == sq

Fill(p) ==
    /\ p \in SqeHandles
    /\ sqes' = prep(sqes, p)
    /\ ret' = Plain("fill", "ok", p, 0)
    /\ UNCHANGED <<lease, sqe_head, sqe_tail, inflight, cq, held, heap, recovered, rring>>

----------------------------------------------------------------------------
(* Rring::submit *)

\* a submit that leaves the newest entry behind
submit_short(tail, head) == IF tail > head THEN tail - head - 1 ELSE 0

\* io_uring_submit: the number of entries flushed, all that are unsubmitted
submit(tail, head) == tail - head

\* the operation the kernel starts for the entry of running index k
Started(k) ==
    [sid |-> k,
     user_data |-> sqes[EntryOf(k)].user_data,
     attached |-> lease[EntryOf(k)].attached]

Submit ==
    LET n == submit(sqe_tail, sqe_head) IN
    /\ inflight' = inflight \cup {Started(k) : k \in sqe_head .. (sqe_head + n - 1)}
    /\ sqe_head' = sqe_head + n
    /\ lease' = [p \in SqePtr |->
                    IF p \in {EntryOf(k) : k \in sqe_head .. (sqe_head + n - 1)}
                    THEN NoLease ELSE lease[p]]
    /\ ret' = Plain("submit", "ok", NULL, n)
    /\ UNCHANGED <<sqes, sqe_tail, cq, held, heap, recovered, rring>>

\* io_uring_enter fails: nothing is consumed, the negative code is returned
SubmitFail ==
    /\ sqe_tail > sqe_head
    /\ \E e \in EnterErrno : ret' = Plain("submit", "err", NULL, -e)
    /\ UNCHANGED ring

----------------------------------------------------------------------------
(* The kernel *)

\* an operation in flight finishes, in any order, with any result code; its
\* completion carries the tag of the submitted entry; a caller blocked in
\* wait stays blocked
KernelComplete ==
    /\ Len(cq) < CqEntries
    /\ \E o \in inflight, r \in KernelRes :
          /\ cq' = Append(cq, [res |-> r, user_data |-> o.user_data,
                               attached |-> o.attached])
          /\ inflight' = inflight \ {o}
    /\ ret' = IF ret.status = "blocked" THEN ret ELSE Plain("kernel", "ok", NULL, 0)
    /\ UNCHANGED <<sqes, lease, sqe_head, sqe_tail, held, heap, recovered, rring>>

----------------------------------------------------------------------------
(* Rring::wait, Rring::seen *)

\* a wait that takes the zero of io_uring_wait_cqe for a failure
wait_zero_fails(retval) ==
    IF retval = 0
    THEN Plain("wait", "err", NULL, -retval)
    ELSE Plain("wait", "ok", NULL, 0)

\* Rring::wait: an OS error of number -retval, or the Cqe
wait(retval) ==
    IF retval # 0
    THEN Plain("wait", "err", NULL, -retval)
    ELSE Plain("wait", "ok", NULL, 0)

\* io_uring_wait_cqe blocks until a completion is ready, then returns 0 and
\* a pointer to the head of the queue, which it leaves in place
Wait ==
    /\ cq # << >>
    /\ held' = TRUE
    /\ ret' = wait(0)
    /\ UNCHANGED <<sqes, lease, sqe_head, sqe_tail, inflight, cq, heap, recovered, rring>>

\* io_uring_wait_cqe is interrupted
WaitFail ==
    /\ \E e \in EnterErrno : ret' = wait(-e)
    /\ UNCHANGED ring

\* Rring::seen consumes the Cqe; io_uring_cqe_seen advances the head by one
Seen ==
    /\ held
    /\ held' = FALSE
    /\ cq' = Tail(cq)
    /\ ret' = Plain("seen", "ok", NULL, 0)
    /\ recovered' = FALSE
    /\ UNCHANGED <<sqes, lease, sqe_head, sqe_tail, inflight, heap, rring>>

----------------------------------------------------------------------------
(* Cqe *)

\* Cqe::get_result
get_result(c) == c.res

\* the result code passed on without negation
Neg32_dropped(x) == x

\* -op_result on an i32 (wrapping at the minimum)
Neg32(x) == IF x = -2147483647 - 1 THEN x ELSE -x

\* OperationError::op_err: the operation and io::Error::from_raw_os_error
op_err(op, err_code) == [op |-> op, err |-> err_code]

\* *data_ptr: the cell's value; a freed cell reads as anything
Deref(hp, ptr) == IF hp[ptr].owner = "free" THEN UserData ELSE {hp[ptr].val}

\* Box::from_raw(data_ptr): the Box takes the cell from the raw pointer; on
\* a cell that a Box already owns, or that was freed, a second owner appears
from_raw(hp, ptr) ==
    IF hp[ptr].owner = "raw" THEN [hp EXCEPT ![ptr].owner = "box"] ELSE hp

\* get_data testing the sign of the result before the tag
get_data_sign_first(c, hp) ==
    IF get_result(c) < 0 /\ c.user_data = NULL
    THEN {[ret |-> Ret("get_data", "operr", NULL, Neg32(get_result(c)), NoCtx,
                       "None", "null"),
           heap |-> hp]}
    ELSE IF c.user_data = NULL
         THEN {[ret |-> Ret("get_data", "none", NULL, 0, NoCtx, "None", "null"),
                heap |-> hp]}
         ELSE IF get_result(c) < 0
              THEN {[ret |-> Ret("get_data", "operr", NULL, Neg32(get_result(c)),
                                 NoCtx, x.op, hp[c.user_data].owner),
                     heap |-> hp] : x \in Deref(hp, c.user_data)}
              ELSE {[ret |-> Ret("get_data", "some", c.user_data, 0, x, "None",
                                 hp[c.user_data].owner),
                     heap |-> from_raw(hp, c.user_data)] : x \in Deref(hp, c.user_data)}

\* Cqe::get_data on the entry c: the outcomes, each the value returned and
\* the heap left behind
get_data(c, hp) ==
    LET op_result == get_result(c)
        ptr == c.user_data
    IN  IF ptr = NULL
        THEN {[ret |-> Ret("get_data", "none", NULL, 0, NoCtx, "None", "null"),
               heap |-> hp]}
        ELSE IF op_result < 0
             THEN {[ret |-> Ret("get_data", "operr", NULL,
                                op_err(x.op, Neg32(op_result)).err, NoCtx,
                                op_err(x.op, Neg32(op_result)).op, hp[ptr].owner),
                    heap |-> hp] : x \in Deref(hp, ptr)}
             ELSE {[ret |-> Ret("get_data", "some", ptr, 0, x, "None", hp[ptr].owner),
                    heap |-> from_raw(hp, ptr)] : x \in Deref(hp, ptr)}

GetData ==
    /\ held
    /\ \E o \in get_data(Head(cq), heap) :
          /\ ret' = o.ret
          /\ heap' = o.heap
    /\ recovered' = TRUE
    /\ UNCHANGED <<sqes, lease, sqe_head, sqe_tail, inflight, cq, held, rring>>

GetResult ==
    /\ held
    /\ ret' = Plain("get_result", "ok", NULL, get_result(Head(cq)))
    /\ UNCHANGED ring

\* the caller drops a Box<UserData<T>> that get_data returned
DropBox(a) ==
    /\ heap[a].owner = "box"
    /\ heap' = [heap EXCEPT ![a] = FreeCell]
    /\ ret' = Plain("drop", "ok", NULL, 0)
    /\ UNCHANGED <<sqes, lease, sqe_head, sqe_tail, inflight, cq, held,
                   recovered, rring>>

----------------------------------------------------------------------------
Next ==
    \/ GetSqe
    \/ \E p \in SqePtr, user_data \in Contexts : SetUserData(p, user_data)
    \/ \E p \in SqePtr : Fill(p)
    \/ Submit
    \/ SubmitFail
    \/ KernelComplete
    \/ Wait
    \/ WaitFail
    \/ Seen
    \/ GetData
    \/ GetResult
    \/ \E a \in Addr : DropBox(a)

Spec == Init /\ [][Next]_vars

----------------------------------------------------------------------------
(* The life of the Rring: Rring::new, Rring::with_param, Rring::exit, Drop *)

\* everything but the Rring and the last result
rings == <<sqes, lease, sqe_head, sqe_tail, inflight, cq, held, heap, recovered>>

\* before Rring::new
InitLife ==
    /\ sqes = [p \in SqePtr |-> ZeroSqe]
    /\ lease = [p \in SqePtr |-> NoLease]
    /\ sqe_head = 0
    /\ sqe_tail = 0
    /\ inflight = {}
    /\ cq = << >>
    /\ held = FALSE
    /\ heap = [a \in Addr |-> FreeCell]
    /\ ret = Plain("start", "ok", NULL, 0)
    /\ recovered = FALSE
    /\ rring = Unborn

\* alloc_zeroed(layout): the control memory of the ring
alloc_zeroed(rr) == [rr EXCEPT !.mem = "alloc"]

\* Rring::new and Rring::with_param after io_uring_queue_init returned r: the
\* value returned and the Rring left behind; on r < 0 no Rring is built and
\* the control memory stays as alloc_zeroed left it
Rring_new(call, rr, r) ==
    IF r < 0
    THEN [ret |-> Plain(call, "err", NULL, -r), rring |-> alloc_zeroed(rr)]
    ELSE [ret |-> Plain(call, "ok", NULL, 0),
          rring |-> [alloc_zeroed(rr) EXCEPT !.kernel = "init", !.handle = "live"]]

New(call) ==
    /\ rring = Unborn
    /\ \E r \in InitRet :
          /\ ret' = Rring_new(call, rring, r).ret
          /\ rring' = Rring_new(call, rring, r).rring
    /\ UNCHANGED rings

\* io_uring_queue_exit: unmaps the rings and closes the descriptor
io_uring_queue_exit(rr) == [rr EXCEPT !.kernel = "exit", !.exits = @ + 1]

\* dealloc(self._inner, self._layout)
dealloc(rr) == [rr EXCEPT !.mem = "freed"]

\* Rring::exit, the public method: the Rring stays in the caller's hands
Exit ==
    /\ rring.handle = "live"
    /\ rring.exits + 1 < MaxExits
    /\ rring' = io_uring_queue_exit(rring)
    /\ ret' = Plain("exit", "ok", NULL, 0)
    /\ UNCHANGED rings

\* a drop that frees the control memory first
drop_dealloc_first(i) == IF i = 1 THEN "dealloc" ELSE "exit"

\* Drop for Rring: the i-th statement of drop(), self.exit() then dealloc
drop_step(i) == IF i = 1 THEN "exit" ELSE "dealloc"

\* one statement of Drop::drop; the Rring is gone after the second
DropStep ==
    /\ rring.handle \in {"live", "dropping"}
    /\ LET step == drop_step(rring.dstep + 1)
           after == IF step = "exit" THEN io_uring_queue_exit(rring)
                                     ELSE dealloc(rring)
       IN  /\ rring' = [after EXCEPT !.dstep = @ + 1,
                                     !.handle = IF rring.dstep = 0 THEN "dropping"
                                                ELSE "gone"]
           /\ ret' = Plain("drop_rring", step, NULL, 0)
    /\ UNCHANGED rings

\* a queue call on a ring whose mappings io_uring_queue_exit removed: the
\* call may run on what the control memory still says, or the process dies
Fault ==
    /\ rring.handle = "live"
    /\ rring.kernel = "exit"
    /\ rring' = [rring EXCEPT !.handle = "crashed"]
    /\ ret' = Plain("fault", "fault", NULL, 0)
    /\ UNCHANGED rings

\* the entries that get_sqe has handed out so far
Issued == {EntryOf(k) : k \in 0 .. (sqe_tail - 1)}

\* a fill call through an Sqe the caller kept past the submit of its entry
\* or past the Rring: the write lands in the entry, or nowhere mapped
StaleFill(p) ==
    /\ p \in Issued
    /\ p \notin SqeHandles \/ rring.handle # "live"
    /\ rring.handle # "crashed"
    /\ sqes' = prep(sqes, p)
    /\ \E status \in (IF rring.kernel = "init" THEN {"ok"} ELSE {"ok", "fault"}) :
          ret' = Plain("fill", status, p, 0)
    /\ UNCHANGED <<lease, sqe_head, sqe_tail, inflight, cq, held, heap,
                   recovered, rring>>

NextLife ==
    \/ \E call \in {"new", "with_param"} : New(call)
    \/ Exit
    \/ DropStep
    \/ Fault
    \/ /\ rring.handle = "live"
       /\ \/ GetSqe
          \/ \E p \in SqePtr : Fill(p)
          \/ Submit
          \/ Wait
          \/ Seen
    \/ rring.kernel = "init" /\ KernelComplete
    \/ \E p \in SqePtr : StaleFill(p)

SpecLife == InitLife /\ [][NextLife]_vars

----------------------------------------------------------------------------
(* Rring::wait as a call that blocks *)

\* the caller enters Rring::wait: io_uring_wait_cqe has not returned yet
WaitCall ==
    /\ ret.status # "blocked"
    /\ ret' = Plain("wait", "blocked", NULL, 0)
    /\ UNCHANGED ring

\* io_uring_wait_cqe returns 0: a completion is ready
WaitReturn == ret.status = "blocked" /\ Wait

\* io_uring_wait_cqe returns -errno
WaitInterrupted == ret.status = "blocked" /\ WaitFail

\* one thread: while it is blocked in wait only the kernel moves
NextLive ==
    \/ /\ ret.status # "blocked"
       /\ \/ GetSqe
          \/ \E p \in SqePtr : Fill(p)
          \/ Submit
          \/ Seen
          \/ GetResult
          \/ WaitCall
    \/ KernelComplete
    \/ WaitReturn
    \/ WaitInterrupted

\* the kernel finishes what is in flight, and io_uring_wait_cqe returns once
\* a completion is ready
SpecLive ==
    Init /\ [][NextLive]_vars /\ WF_vars(KernelComplete) /\ WF_vars(WaitReturn)

----------------------------------------------------------------------------
(* Interpretation of one completion over the range of result codes *)

\* the result codes of a completion: -errno down to -4095, zero, counts up
\* to the largest i32
SignRes ==
    (-4095 .. -4076) \cup (-20 .. 20) \cup {2147483647 - k : k \in 0 .. 19}

\* a ring with one completion ready and its Cqe handed out: the tag is NULL
\* or points at the context attached to the operation
InitSign ==
    /\ sqes = [p \in SqePtr |-> ZeroSqe]
    /\ lease = [p \in SqePtr |-> NoLease]
    /\ sqe_head = 1
    /\ sqe_tail = 1
    /\ inflight = {}
    /\ held = TRUE
    /\ ret = wait(0)
    /\ recovered = FALSE
    /\ rring = Built
    /\ \E r \in SignRes :
          \/ /\ cq = <<[res |-> r, user_data |-> NULL, attached |-> NoCtx]>>
             /\ heap = [a \in Addr |-> FreeCell]
          \/ \E user_data \in Contexts :
                /\ cq = <<[res |-> r, user_data |-> 1, attached |-> user_data]>>
                /\ heap = into_raw([a \in Addr |-> FreeCell], 1, user_data)

NextSign ==
    \/ GetData
    \/ GetResult
    \/ \E a \in Addr : DropBox(a)
    \/ Seen

SpecSign == InitSign /\ [][NextSign]_vars

----------------------------------------------------------------------------
(* Claims *)

\* the completion the Cqe in hand points to
Cur == Head(cq)

\* C1: a context is reclaimed from its tag at most once: whenever get_data
\* makes a Box of the cell behind the tag, the cell was still owned by the
\* raw pointer, never by an earlier Box and never freed.
C1ReclaimOnce ==
    (ret.call = "get_data" /\ ret.h # NULL) => ret.owner = "raw"

\* C2: get_data on a completion with a non-null tag reclaims the context,
\* whatever the sign of the result code: after the call the cell behind the
\* tag is no longer owned by the raw pointer alone.
C2ReclaimAlways ==
    (ret.call = "get_data" /\ Cur.user_data # NULL) =>
        (ret.h = Cur.user_data /\ heap[Cur.user_data].owner # "raw")

\* C3: round trip: the context that get_data hands back for the completion
\* of an operation submitted with an attached context has the operation,
\* identifier, source descriptor and payload that were attached.
C3RoundTrip ==
    (ret.call = "get_data" /\ ret.status = "some" /\ Cur.attached # NoCtx) =>
        (/\ ret.ctx.op = Cur.attached.op
         /\ ret.ctx.id = Cur.attached.id
         /\ ret.ctx.srcfd = Cur.attached.srcfd
         /\ ret.ctx.data = Cur.attached.data)

\* C4: sign convention: on a completion that carries a context, a result
\* code r < 0 gives an operation error of number -r, r >= 0 (zero included)
\* gives success, and the value read by get_result is r itself.
C4SignConvention ==
    /\ (ret.call = "get_data" /\ Cur.user_data # NULL) =>
          IF Cur.res < 0
          THEN ret.status = "operr" /\ ret.val = -Cur.res
          ELSE ret.status = "some"
    /\ ret.call = "get_result" => ret.val = Cur.res

C4Witness ==
    /\ ret.call = "get_data"
    /\ ret.status = "operr"
    /\ Cur.res = -4095
    /\ ret.val = 4095

\* C5: order independence: a live context taken from the tag of a completion
\* is the one its own request attached: no completion yields the context of
\* a request with another identifier.
C5NoCrossContamination ==
    (/\ ret.call = "get_data"
     /\ ret.status = "some"
     /\ ret.owner = "raw"
     /\ Cur.attached # NoCtx) => ret.ctx.id = Cur.attached.id

C7NullTag ==
    [][(ret'.call = "get_data" /\ held /\ Cur.user_data = NULL) =>
          (/\ ret'.status = "none"
           /\ ret'.ctx = NoCtx
           /\ ret'.op = "None"
           /\ ret'.val = 0
           /\ ret'.h = NULL
           /\ heap' = heap)]_vars

C7Witness ==
    /\ ret.call = "get_data"
    /\ ret.status = "none"
    /\ Cur.user_data = NULL
    /\ Cur.res < 0

\* C8: get_sqe on a full submission queue (Entries slots acquired and not
\* submitted) returns "queue full" and changes nothing of the ring; with a
\* free entry it returns the next slot.  It is a step the caller can always
\* take on a full queue: it does not block.
C8QueueFull ==
    /\ []((sqe_tail - sqe_head >= Entries) => ENABLED GetSqe)
    /\ [][ret'.call = "get_sqe" =>
             IF sqe_tail - sqe_head >= Entries
             THEN ret'.status = "QueueFull" /\ UNCHANGED ring
             ELSE /\ ret'.status = "ok"
                  /\ ret'.h = EntryOf(sqe_tail)
                  /\ sqe_tail' = sqe_tail + 1
                  /\ UNCHANGED <<sqes, sqe_head, inflight, cq, held, heap, recovered, rring>>]_vars

C8Witness ==
    /\ ret.call = "get_sqe"
    /\ ret.status = "QueueFull"
    /\ sqe_tail - sqe_head = Entries

\* C9: a submit that returns a count flushes every unsubmitted slot as one
\* batch: the count is their number, each is in flight afterwards, none is
\* left unsubmitted, and the next get_sqe finds a free entry.
C9SubmitAll ==
    [][(ret'.call = "submit" /\ ret'.status = "ok") =>
          (/\ ret'.val = sqe_tail - sqe_head
           /\ {Started(k) : k \in sqe_head .. (sqe_tail - 1)} \subseteq inflight'
           /\ sqe_head' = sqe_tail
           /\ sqe_tail' = sqe_tail
           /\ io_uring_get_sqe(sqe_tail', sqe_head') # NULL)]_vars

C9Witness ==
    /\ ret.call = "submit"
    /\ ret.status = "ok"
    /\ ret.val = Entries
    /\ sqe_head = sqe_tail

\* C10: every call that reads the result code of a completion also decides
\* the fate of its context: on a completion that carries a context, the
\* call makes a Box of it (a null tag leaves nothing to decide).
C10Inseparable ==
    (ret.call \in {"get_result", "get_data"} /\ Cur.user_data # NULL) => ret.h # NULL

\* C11: the kernel ring is torn down strictly before the control memory is
\* freed: the memory is never freed while the kernel ring is initialized,
\* and the step that frees it finds io_uring_queue_exit already called.
C11ExitBeforeFree ==
    rring.mem = "freed" => (rring.kernel = "exit" /\ rring.exits >= 1)

C11Witness ==
    /\ rring.mem = "freed"
    /\ rring.handle = "gone"
    /\ ret.call = "drop_rring"

\* C12: a request moves through Unsubmitted, InFlight, Completed, Recovered,
\* Released in this order: the entry of a completion that carries a context
\* is released by seen only after get_data was called on it, and get_data is
\* called only on a completion that was written and handed out.
C12Lifecycle ==
    /\ [](recovered => (held /\ cq # << >>))
    /\ [][(Len(cq') < Len(cq) /\ Cur.user_data # NULL) => recovered]_vars

\* C13: a wait that blocks while an operation is in flight or a completion
\* is unacknowledged returns in the end, with the Cqe or, if the wait itself
\* failed, with the OS error of the wait.
C13WaitReturns ==
    (ret.status = "blocked" /\ (inflight # {} \/ cq # << >>))
        ~> (/\ ret.call = "wait"
            /\ \/ ret.status = "ok" /\ held
               \/ ret.status = "err" /\ ret.val \in EnterErrno)

C13Witness ==
    /\ ret.call = "wait"
    /\ ret.status = "blocked"
    /\ inflight # {}
    /\ cq = << >>

\* C14: a fill call goes through the Sqe of an entry that is acquired and
\* not yet submitted, on an Rring that is still there.
C14Leases ==
    (ret.call = "fill" /\ ret.status = "ok") =>
        (ret.h \in SqeHandles /\ rring.handle = "live")

\* C15 as stated: between set_user_data and the next submit the caller still
\* owns the context it attached.
C15CallerOwns ==
    \A p \in SqeHandles :
        (lease[p].attached # NoCtx /\ sqes[p].user_data # NULL) =>
            heap[sqes[p].user_data].owner = "box"

\* C15, amended: ownership passes at set_user_data: when the call returns the
\* context sits in a heap cell that the tag of the entry owns as a raw
\* pointer, and nothing of it is left with the caller.
C15OwnedByTag ==
    ret.call = "set_user_data" =>
        /\ sqes[ret.h].user_data # NULL
        /\ heap[sqes[ret.h].user_data] =
               [owner |-> "raw", val |-> lease[ret.h].attached]

C15Witness ==
    /\ ret.call = "set_user_data"
    /\ ret.h \in SqeHandles
    /\ sqe_head < sqe_tail
    /\ heap[sqes[ret.h].user_data].owner = "raw"

C17OneCqe ==
    [][(ret'.call = "wait" /\ ret'.status = "ok") => ~held]_vars

\* C18: io_uring_queue_exit runs once over the life of an Rring, and no
\* queue call runs on a ring that was torn down.
C18ExitOnce ==
    /\ rring.exits <= 1
    /\ ret.call \in {"get_sqe", "fill", "submit", "wait", "seen"} =>
           rring.kernel = "init"

\* the tags that point at the cell a: in the entries acquired and not yet
\* submitted, in the operations in flight, in the completion ring
Refs(a) ==
    Cardinality({p \in SqeHandles : sqes[p].user_data = a})
    + Cardinality({o \in inflight : o.user_data = a})
    + Cardinality({i \in 1 .. Len(cq) : cq[i].user_data = a})

\* C19: a context that was attached and is not yet recovered is referenced
\* by exactly one tag.
C19Reachable ==
    \A a \in Addr : heap[a].owner = "raw" => Refs(a) = 1

\* C20: a failed Rring::new or Rring::with_param returns the OS error of
\* number -ret and leaves no control memory allocated.
C20FailedNew ==
    (ret.call \in {"new", "with_param"} /\ ret.status = "err") =>
        (-ret.val \in InitRet /\ rring.mem # "alloc")

====
